---- MODULE Spec2Model ----
(***************************************************************************)
(* Model of the CuBFF Windows compatibility headers                        *)
(*   src/windows_portability.h  and  src/common_windows.h.                 *)
(*                                                                         *)
(* Part 1 is the preprocessor pass over the two headers: the compiler's    *)
(* predefined macros are the input, the macro table, the text lines handed *)
(* to the compiler and the linker directives are the result.               *)
(* Part 2 is the run of the inline function strerror_r the first header    *)
(* defines, in both of its compiled variants, by one or by two callers.    *)
(***************************************************************************)
EXTENDS Integers, Sequences, FiniteSets, TLC

VARIABLES
    \* ---- preprocessor pass
    predef,     \* macros the compiler predefines (_WIN32, __GNUC__, ...)
    macros,     \* macro table: name -> [fn, params, body]
    file,       \* header being read: "none", "wp" or "cw"
    ppc,        \* index of the next line of that header
    stack,      \* open #if groups: TRUE where the group's text is taken
    emitted,    \* <<header, line>> of every text/include line compiled
    libs,       \* linker directives emitted, in order
    seen,       \* headers read to their end at least once
    nInc,       \* number of #include of the two headers so far
    out,        \* last use of a shimmed name in user code: the call, its
                \* expansion, and the headers read before it
    \* ---- run of strerror_r
    threads,    \* callers that exist
    sharedBuf,  \* C runtime: strerror writes one static buffer (else 1/thread)
    crtDebug,   \* C runtime: the secure functions fill the unused tail
    errbuf,     \* the buffers strerror returns a pointer to
    pc,         \* per caller: position inside strerror_r
    errnum,     \* per caller: argument errnum
    buflen,     \* per caller: argument buflen
    mem,        \* per caller: the bytes at buf-1 .. buf+MaxBuf
    mem0,       \* per caller: those bytes when strerror_r was entered
    written,    \* per caller: offsets from buf the call has stored to
    result,     \* per caller: local variable result (pointer from strerror)
    status,     \* per caller: what strerror_s returned (discarded)
    ret         \* per caller: the pointer strerror_r returned

ppvars  == <<predef, macros, file, ppc, stack, emitted, libs, seen, nInc, out>>
runvars == <<threads, sharedBuf, crtDebug, errbuf, pc, errnum, buflen, mem,
             mem0, written, result, status, ret>>
vars    == <<ppvars, runvars>>

----------------------------------------------------------------------------
(* Bounds of the model *)

MaxIncludes == 2    \* #include of the two headers per translation unit
MaxBuf      == 3    \* largest buflen a caller passes
SizeBits    == 12   \* modelled width of size_t and of a pointer

----------------------------------------------------------------------------
(* Part 1: the headers, line by line *)

Flags == {"_WIN32", "__GNUC__", "_MSC_VER", "_OPENMP"}

Ln(n, k, name) ==
    [line |-> n, kind |-> k, name |-> name, fn |-> FALSE,
     params |-> << >>, body |-> << >>]

Def(n, name, fn, params, body) ==
    [line |-> n, kind |-> "define", name |-> name, fn |-> fn,
     params |-> params, body |-> body]

\* Variant: the Windows group guarded by the opposite test.
WinGuardInverted == Ln(7, "ifndef", "_WIN32")

\* #ifdef _WIN32
WinGuard == Ln(7, "ifdef", "_WIN32")

\* #define getpid _getpid
DefGetpid == Def(13, "getpid", FALSE, << >>, <<"_getpid">>)

\* Variant: the replacement list passes mode on.
DefMkdirPassesMode ==
    Def(14, "mkdir", TRUE, <<"name", "mode">>,
        <<"_mkdir", "(", "name", ",", "mode", ")">>)

\* #define mkdir(name, mode) _mkdir(name)
DefMkdir ==
    Def(14, "mkdir", TRUE, <<"name", "mode">>, <<"_mkdir", "(", "name", ")">>)

\* #define access _access
DefAccess == Def(15, "access", FALSE, << >>, <<"_access">>)

\* Variant: a test that holds under every compiler (no GCC check).
AttrGuardDropped == Ln(34, "ifdef", "WINDOWS_PORTABILITY_H")

\* #ifndef __GNUC__
AttrGuard == Ln(34, "ifndef", "__GNUC__")

\* #define __attribute__(x)
DefAttribute == Def(35, "__attribute__", TRUE, <<"x">>, << >>)

WindowsPortability ==
    << Ln(4, "ifndef", "WINDOWS_PORTABILITY_H"),
       Def(5, "WINDOWS_PORTABILITY_H", FALSE, << >>, << >>),
       WinGuard,
       Ln(9, "include", "io.h"),
       Ln(10, "include", "direct.h"),
       DefGetpid,
       DefMkdir,
       DefAccess,
       Ln(18, "include", "string"),
       Ln(19, "include", "errno.h"),
       Ln(21, "text", "strerror_r"),
       Ln(22, "ifdef", "_MSC_VER"),
       Ln(23, "text", "strerror_s"),
       Ln(25, "else", ""),
       Ln(26, "text", "strerror"),
       Ln(30, "endif", ""),
       AttrGuard,
       DefAttribute,
       Ln(36, "endif", ""),
       Ln(41, "else", ""),
       Ln(43, "include", "sys/stat.h"),
       Ln(44, "include", "sys/types.h"),
       Ln(45, "include", "unistd.h"),
       Ln(46, "endif", ""),
       Ln(48, "endif", "") >>

\* #ifndef __GNUC__   (the group commented "MSVC compatibility")
LibGuard == Ln(12, "ifndef", "__GNUC__")

CommonWindows ==
    << Ln(4, "ifndef", "COMMON_WINDOWS_H"),
       Def(5, "COMMON_WINDOWS_H", FALSE, << >>, << >>),
       Ln(8, "include", "common.h"),
       Ln(11, "ifdef", "_WIN32"),
       LibGuard,
       Ln(14, "pragma", "brotlienc.lib"),
       Ln(15, "pragma", "brotlidec.lib"),
       Ln(16, "ifdef", "_OPENMP"),
       Ln(17, "pragma", "libiomp5md.lib"),
       Ln(18, "endif", ""),
       Ln(19, "endif", ""),
       Ln(20, "endif", ""),
       Ln(22, "endif", "") >>

Headers == {"wp", "cw"}

Lines(h) == IF h = "wp" THEN WindowsPortability ELSE CommonWindows

Reading == file \in Headers /\ ppc <= Len(Lines(file))

Cur == Lines(file)[ppc]

\* A line is compiled when every enclosing #if group is taken.
Active == \A i \in 1..Len(stack) : stack[i]

Defined(name) == name \in DOMAIN macros

\* The condition of #ifdef / #ifndef.
CondHolds(d) ==
    IF d.kind = "ifdef" THEN Defined(d.name) ELSE ~Defined(d.name)

Define(M, d) ==
    [n \in DOMAIN M \cup {d.name} |->
        IF n = d.name THEN [fn |-> d.fn, params |-> d.params, body |-> d.body]
                      ELSE M[n]]

Predefined(fs) ==
    [n \in fs |-> [fn |-> FALSE, params |-> << >>, body |-> <<"1">>]]

----------------------------------------------------------------------------
(* Macro expansion of a use  f(a1, ..., an)  in user code.  The arguments  *)
(* used are plain identifiers and literals.                                *)

RECURSIVE ArgList(_)
ArgList(args) ==
    IF args = << >> THEN << >>
    ELSE IF Len(args) = 1 THEN <<args[1]>>
    ELSE <<args[1], ",">> \o ArgList(Tail(args))

CallTokens(f, args) == <<f, "(">> \o ArgList(args) \o <<")">>

\* A parameter of the replacement list is replaced by its argument, every
\* other token is kept; all parameters are replaced at once.
Subst(body, params, args) ==
    [i \in 1..Len(body) |->
        IF \E k \in 1..Len(params) : params[k] = body[i]
        THEN args[CHOOSE k \in 1..Len(params) : params[k] = body[i]]
        ELSE body[i]]

ExpandCall(M, c) ==
    IF c.fn \notin DOMAIN M THEN CallTokens(c.fn, c.args)
    ELSE IF M[c.fn].fn
         THEN IF Len(M[c.fn].params) = Len(c.args)
              THEN Subst(M[c.fn].body, M[c.fn].params, c.args)
              ELSE CallTokens(c.fn, c.args)
         ELSE M[c.fn].body \o <<"(">> \o ArgList(c.args) \o <<")">>

NoUse == [call |-> [fn |-> "", args |-> << >>], exp |-> << >>, after |-> {}]

Names == {"d", "mode"}
Modes == {"0755", "m"}

----------------------------------------------------------------------------
(* Preprocessor actions *)

ppFrame == UNCHANGED runvars

\* The translation unit includes one of the two headers.
PPInclude(h) ==
    /\ file = "none" /\ nInc < MaxIncludes
    /\ file' = h /\ ppc' = 1 /\ stack' = << >> /\ nInc' = nInc + 1
    /\ UNCHANGED <<predef, macros, emitted, libs, seen, out>>
    /\ ppFrame

PPIf ==
    /\ Reading /\ Cur.kind \in {"ifdef", "ifndef"}
    /\ stack' = Append(stack, CondHolds(Cur))
    /\ ppc' = ppc + 1
    /\ UNCHANGED <<predef, macros, file, emitted, libs, seen, nInc, out>>
    /\ ppFrame

PPElse ==
    /\ Reading /\ Cur.kind = "else"
    /\ stack' = [stack EXCEPT ![Len(stack)] = ~@]
    /\ ppc' = ppc + 1
    /\ UNCHANGED <<predef, macros, file, emitted, libs, seen, nInc, out>>
    /\ ppFrame

PPEndif ==
    /\ Reading /\ Cur.kind = "endif"
    /\ stack' = SubSeq(stack, 1, Len(stack) - 1)
    /\ ppc' = ppc + 1
    /\ UNCHANGED <<predef, macros, file, emitted, libs, seen, nInc, out>>
    /\ ppFrame

PPDefine ==
    /\ Reading /\ Cur.kind = "define"
    /\ macros' = IF Active THEN Define(macros, Cur) ELSE macros
    /\ ppc' = ppc + 1
    /\ UNCHANGED <<predef, file, stack, emitted, libs, seen, nInc, out>>
    /\ ppFrame

\* A system #include or a line of C text: compiled when active.
PPText ==
    /\ Reading /\ Cur.kind \in {"include", "text"}
    /\ emitted' = IF Active THEN emitted \cup {<<file, Cur.line>>} ELSE emitted
    /\ ppc' = ppc + 1
    /\ UNCHANGED <<predef, macros, file, stack, libs, seen, nInc, out>>
    /\ ppFrame

\* #pragma comment(lib, "...")
PPPragma ==
    /\ Reading /\ Cur.kind = "pragma"
    /\ libs' = IF Active THEN Append(libs, Cur.name) ELSE libs
    /\ ppc' = ppc + 1
    /\ UNCHANGED <<predef, macros, file, stack, emitted, seen, nInc, out>>
    /\ ppFrame

PPEnd ==
    /\ file \in Headers /\ ppc > Len(Lines(file))
    /\ seen' = seen \cup {file}
    /\ file' = "none"
    /\ UNCHANGED <<predef, macros, ppc, stack, emitted, libs, nInc, out>>
    /\ ppFrame

\* User code between or after the includes uses a shimmed name.
Use(c) ==
    /\ file = "none"
    /\ out' = [call |-> c, exp |-> ExpandCall(macros, c), after |-> seen]
    /\ UNCHANGED <<predef, macros, file, ppc, stack, emitted, libs, seen, nInc>>
    /\ ppFrame

UseMkdir == \E n \in Names, m \in Modes : Use([fn |-> "mkdir", args |-> <<n, m>>])
UseGetpid == Use([fn |-> "getpid", args |-> << >>])
UseAccess == \E n \in Names : Use([fn |-> "access", args |-> <<n, "0">>])
UseAttribute == Use([fn |-> "__attribute__", args |-> <<"(constructor)">>])

----------------------------------------------------------------------------
(* Part 2: strerror_r at run time *)

Threads == {1, 2}

NUL  == "NUL"
Junk == "?"
Fill == "FE"

\* The C runtime's error text for an error number (every number has one).
Msg(e) ==
    IF e = 1 THEN <<"a">>
    ELSE IF e = 2 THEN <<"b", "c", "d">>
    ELSE <<"u", "n">>

Errnums == {1, 2, 99}

Offsets == (0 - 1)..MaxBuf

Min(a, b) == IF a < b THEN a ELSE b

\* Pointers
NullPtr   == <<"null", 0>>
BufPtr(t) == <<"buf", t>>

\* The buffer strerror formats into and returns: one per thread, or a single
\* static one; the C standard allows both.
ErrBufOf(t) == IF sharedBuf THEN 0 ELSE t
StrerrorPtr(t) == <<"errbuf", ErrBufOf(t)>>

\* #ifdef _MSC_VER inside strerror_r
Msvc == Defined("_MSC_VER")

\* strncpy(dst, src, n): the first n characters of src, padded with NUL up
\* to n when src is shorter; no NUL when src has n characters or more.
Strncpy(m, src, n) ==
    [o \in DOMAIN m |->
        IF o \in 0..(n - 1)
        THEN IF o < Len(src) THEN src[o + 1] ELSE NUL
        ELSE m[o]]

\* Variant: a text that does not fit gives the empty string (as strcpy_s).
StrerrorSEmptyOnOverflow(m, n, e, dbg) ==
    LET k == IF Len(Msg(e)) > n - 1 THEN 0 ELSE Len(Msg(e))
    IN [o \in DOMAIN m |->
          IF o \in 0..(k - 1) THEN Msg(e)[o + 1]
          ELSE IF o = k THEN NUL
          ELSE m[o]]

\* strerror_s(buf, n, e) for n >= 1: the text truncated to n-1 characters,
\* then NUL; a debug runtime fills the rest of the n bytes.
StrerrorS(m, n, e, dbg) ==
    LET k == Min(Len(Msg(e)), n - 1)
    IN [o \in DOMAIN m |->
          IF o \in 0..(k - 1) THEN Msg(e)[o + 1]
          ELSE IF o = k THEN NUL
          ELSE IF dbg /\ o \in (k + 1)..(n - 1) THEN Fill
          ELSE m[o]]

StrerrorSWrites(n, e, dbg) ==
    IF dbg THEN 0..(n - 1) ELSE 0..Min(Len(Msg(e)), n - 1)

SizeMod == 2 ^ SizeBits

\* Variant: buflen - 2.
TermIndexOffByOne(n) == (n + SizeMod - 2) % SizeMod

\* buflen - 1 in size_t arithmetic
TermIndex(n) == (n + SizeMod - 1) % SizeMod

\* Variant: no store.
StoreNulSkipped(m, off) == m

\* buf[i] = '\0'
StoreNul(m, off) == [m EXCEPT ![off] = NUL]

\* Where buf + i points, as an offset from buf, in a flat address space as
\* wide as size_t.
BufBase(t) == 64 * t
WrapOffset(t, i) == ((BufBase(t) + i) % SizeMod) - BufBase(t)

\* Variant: return result;
RetValueResult(t) == result[t]

\* return buf;
RetValue(t) == BufPtr(t)

\* The C string at buf: the characters before the first NUL of the n bytes
\* (all n of them when there is no NUL).
RECURSIVE CStrFrom(_, _, _)
CStrFrom(m, o, n) ==
    IF o >= n \/ m[o] = NUL THEN << >>
    ELSE <<m[o]>> \o CStrFrom(m, o + 1, n)

CStr(m, n) == CStrFrom(m, 0, n)

Terminated(m, n) == \E i \in 0..(n - 1) : m[i] = NUL

Prefix(s, k) == SubSeq(s, 1, Min(Len(s), k))

Fresh(c) == [o \in Offsets |-> c]

\* What each compiled variant of strerror_r leaves in a buffer m of n >= 1
\* bytes when nothing else runs.
MsvcBranch(m, n, e, dbg) == StrerrorS(m, n, e, dbg)
CopyBranch(m, n, e) == StoreNul(Strncpy(m, Msg(e), n), TermIndex(n))

NoCrash == \A t \in Threads : pc[t] # "crashed"

----------------------------------------------------------------------------
(* Run-time actions *)

runFrame == UNCHANGED ppvars

\* A caller enters strerror_r(errnum, buf, buflen).
Call(t) ==
    /\ NoCrash /\ t \in threads /\ pc[t] = "idle"
    /\ \E e \in Errnums, n \in 0..MaxBuf, c \in {Junk, NUL} :
         /\ errnum' = [errnum EXCEPT ![t] = e]
         /\ buflen' = [buflen EXCEPT ![t] = n]
         /\ mem'    = [mem EXCEPT ![t] = Fresh(c)]
         /\ mem0'   = [mem0 EXCEPT ![t] = Fresh(c)]
    /\ pc' = [pc EXCEPT ![t] = "entry"]
    /\ UNCHANGED <<threads, sharedBuf, crtDebug, errbuf, written, result,
                   status, ret>>
    /\ runFrame

\* strerror_s(buf, buflen, errnum);   with _MSC_VER
CallStrerrorS(t) ==
    /\ NoCrash /\ pc[t] = "entry" /\ Msvc
    /\ IF buflen[t] = 0
       THEN \* invalid parameter: the handler ends the process, or lets the
            \* call return EINVAL with the buffer untouched
            \/ /\ pc' = [pc EXCEPT ![t] = "crashed"]
               /\ UNCHANGED <<mem, written, status>>
            \/ /\ pc' = [pc EXCEPT ![t] = "return"]
               /\ status' = [status EXCEPT ![t] = "EINVAL"]
               /\ UNCHANGED <<mem, written>>
       ELSE /\ mem' = [mem EXCEPT
                         ![t] = StrerrorS(@, buflen[t], errnum[t], crtDebug)]
            /\ written' = [written EXCEPT
                         ![t] = @ \cup StrerrorSWrites(buflen[t], errnum[t],
                                                       crtDebug)]
            /\ status' = [status EXCEPT ![t] = "0"]
            /\ pc' = [pc EXCEPT ![t] = "return"]
    /\ UNCHANGED <<threads, sharedBuf, crtDebug, errbuf, errnum, buflen, mem0,
                   result, ret>>
    /\ runFrame

\* char* result = strerror(errnum);   without _MSC_VER
CallStrerror(t) ==
    /\ NoCrash /\ pc[t] = "entry" /\ ~Msvc
    /\ errbuf' = [errbuf EXCEPT ![ErrBufOf(t)] = Msg(errnum[t])]
    /\ result' = [result EXCEPT ![t] = StrerrorPtr(t)]
    /\ pc' = [pc EXCEPT ![t] = "strncpy"]
    /\ UNCHANGED <<threads, sharedBuf, crtDebug, errnum, buflen, mem, mem0,
                   written, status, ret>>
    /\ runFrame

\* strncpy(buf, result, buflen);
CallStrncpy(t) ==
    /\ NoCrash /\ pc[t] = "strncpy"
    /\ mem' = [mem EXCEPT ![t] = Strncpy(@, errbuf[result[t][2]], buflen[t])]
    /\ written' = [written EXCEPT ![t] = @ \cup 0..(buflen[t] - 1)]
    /\ pc' = [pc EXCEPT ![t] = "terminate"]
    /\ UNCHANGED <<threads, sharedBuf, crtDebug, errbuf, errnum, buflen, mem0,
                   result, status, ret>>
    /\ runFrame

\* buf[buflen - 1] = '\0';
Terminate(t) ==
    /\ NoCrash /\ pc[t] = "terminate"
    /\ LET i == TermIndex(buflen[t]) IN
       IF i < buflen[t]
       THEN /\ mem' = [mem EXCEPT ![t] = StoreNul(@, i)]
            /\ written' = [written EXCEPT ![t] = @ \cup {i}]
            /\ pc' = [pc EXCEPT ![t] = "return"]
       ELSE \* a store outside the buffer: it lands where the address wraps
            \* to, or the access faults
            \/ /\ WrapOffset(t, i) \in Offsets
               /\ mem' = [mem EXCEPT ![t] = StoreNul(@, WrapOffset(t, i))]
               /\ written' = [written EXCEPT ![t] = @ \cup {WrapOffset(t, i)}]
               /\ pc' = [pc EXCEPT ![t] = "return"]
            \/ /\ pc' = [pc EXCEPT ![t] = "crashed"]
               /\ UNCHANGED <<mem, written>>
    /\ UNCHANGED <<threads, sharedBuf, crtDebug, errbuf, errnum, buflen, mem0,
                   result, status, ret>>
    /\ runFrame

\* return buf;
Return(t) ==
    /\ NoCrash /\ pc[t] = "return"
    /\ ret' = [ret EXCEPT ![t] = RetValue(t)]
    /\ pc' = [pc EXCEPT ![t] = "returned"]
    /\ UNCHANGED <<threads, sharedBuf, crtDebug, errbuf, errnum, buflen, mem,
                   mem0, written, result, status>>
    /\ runFrame

\* The caller is done with the result and may call again.
Release(t) ==
    /\ NoCrash /\ pc[t] = "returned"
    /\ pc'      = [pc EXCEPT ![t] = "idle"]
    /\ errnum'  = [errnum EXCEPT ![t] = 0]
    /\ buflen'  = [buflen EXCEPT ![t] = 0]
    /\ mem'     = [mem EXCEPT ![t] = Fresh(Junk)]
    /\ mem0'    = [mem0 EXCEPT ![t] = Fresh(Junk)]
    /\ written' = [written EXCEPT ![t] = {}]
    /\ result'  = [result EXCEPT ![t] = NullPtr]
    /\ status'  = [status EXCEPT ![t] = "none"]
    /\ ret'     = [ret EXCEPT ![t] = NullPtr]
    /\ UNCHANGED <<threads, sharedBuf, crtDebug, errbuf>>
    /\ runFrame

----------------------------------------------------------------------------
(* Specifications *)

PPIdle ==
    /\ file = "none" /\ ppc = 1 /\ stack = << >> /\ emitted = {}
    /\ libs = << >> /\ seen = {} /\ nInc = 0 /\ out = NoUse

RunIdle ==
    /\ errbuf  = [b \in {0} \cup Threads |-> << >>]
    /\ pc      = [t \in Threads |-> "idle"]
    /\ errnum  = [t \in Threads |-> 0]
    /\ buflen  = [t \in Threads |-> 0]
    /\ mem     = [t \in Threads |-> Fresh(Junk)]
    /\ mem0    = [t \in Threads |-> Fresh(Junk)]
    /\ written = [t \in Threads |-> {}]
    /\ result  = [t \in Threads |-> NullPtr]
    /\ status  = [t \in Threads |-> "none"]
    /\ ret     = [t \in Threads |-> NullPtr]

\* A translation unit under any compiler: any set of predefined macros.
InitPP ==
    /\ predef \in SUBSET Flags
    /\ macros = Predefined(predef)
    /\ PPIdle
    /\ threads = {} /\ sharedBuf = FALSE /\ crtDebug = FALSE
    /\ RunIdle

\* A Windows build (strerror_r exists only there), MSVC or not, running.
InitRun(ts) ==
    /\ predef \in {{"_WIN32"}, {"_WIN32", "_MSC_VER"}}
    /\ macros = Predefined(predef)
    /\ PPIdle
    /\ threads = ts
    /\ sharedBuf \in BOOLEAN
    /\ crtDebug \in BOOLEAN
    /\ RunIdle

NextPP ==
    \/ \E h \in Headers : PPInclude(h)
    \/ PPIf
    \/ PPElse
    \/ PPEndif
    \/ PPDefine
    \/ PPText
    \/ PPPragma
    \/ PPEnd
    \/ UseMkdir
    \/ UseGetpid
    \/ UseAccess
    \/ UseAttribute

Next ==
    \E t \in Threads :
        \/ Call(t)
        \/ CallStrerrorS(t)
        \/ CallStrerror(t)
        \/ CallStrncpy(t)
        \/ Terminate(t)
        \/ Return(t)
        \/ Release(t)

\* One caller at a time.
Init == InitRun({1})

\* Two callers on two threads.
InitConc == InitRun(Threads)

Spec     == Init /\ [][Next]_vars
SpecConc == InitConc /\ [][Next]_vars
SpecPP   == InitPP /\ [][NextPP]_vars

----------------------------------------------------------------------------
(* Properties of strerror_r *)

Returned(t) == pc[t] = "returned"

\* C1: for every error number and every buffer of length N >= 1, once
\* strerror_r has returned, some byte buf[0..N-1] is NUL, so the buffer holds
\* a string of length <= N-1; in the strerror_s variant and in the
\* strerror/strncpy variant.
C1_NulTerminated ==
    \A t \in Threads :
        Returned(t) /\ buflen[t] >= 1 =>
            /\ Terminated(mem[t], buflen[t])
            /\ Len(CStr(mem[t], buflen[t])) <= buflen[t] - 1

\* The strncpy variant returned from a call whose text did not fit a buffer
\* that held no NUL before.
C1_Witness ==
    /\ Returned(1) /\ ~Msvc /\ buflen[1] >= 1
    /\ Len(Msg(errnum[1])) >= buflen[1]
    /\ ~Terminated(mem0[1], buflen[1])
    /\ Terminated(mem[1], buflen[1])

\* C2: for every error number and N >= 1 the string left in the buffer is the
\* runtime's text for that number when it has at most N-1 characters, and
\* otherwise exactly its first N-1 characters.
C2_TextOrPrefix ==
    \A t \in Threads :
        Returned(t) /\ buflen[t] >= 1 =>
            CStr(mem[t], buflen[t]) =
                IF Len(Msg(errnum[t])) <= buflen[t] - 1
                THEN Msg(errnum[t])
                ELSE SubSeq(Msg(errnum[t]), 1, buflen[t] - 1)

\* A call returned a proper, non-empty prefix of the text.
C2_Witness ==
    /\ Returned(1) /\ ~Msvc
    /\ buflen[1] >= 2 /\ Len(Msg(errnum[1])) > buflen[1] - 1
    /\ CStr(mem[1], buflen[1]) = SubSeq(Msg(errnum[1]), 1, buflen[1] - 1)

\* C3: for every buflen, 0 included, strerror_r stores to no byte outside
\* buf[0..buflen-1].
C3_NoWriteOutside ==
    \A t \in Threads : written[t] \subseteq 0..(buflen[t] - 1)

\* C4: for every error number and N >= 1 the two variants agree: the string
\* the compiled variant left equals the string the other variant leaves in
\* the same buffer for the same arguments, that one is NUL-terminated too, and
\* the pointer returned is the one either variant returns.
C4_VariantsAgree ==
    \A t \in Threads :
        Returned(t) /\ buflen[t] >= 1 =>
            LET other == IF Msvc
                         THEN CopyBranch(mem0[t], buflen[t], errnum[t])
                         ELSE MsvcBranch(mem0[t], buflen[t], errnum[t],
                                         crtDebug)
            IN /\ CStr(mem[t], buflen[t]) = CStr(other, buflen[t])
               /\ Terminated(other, buflen[t])
               /\ ret[t] = BufPtr(t)

\* The strerror_s variant returned a truncated text from a buffer of junk.
C4_Witness ==
    /\ Returned(1) /\ Msvc /\ buflen[1] >= 2
    /\ Len(Msg(errnum[1])) > buflen[1] - 1
    /\ mem0[1] = Fresh(Junk)
    /\ CStr(mem[1], buflen[1]) # << >>

\* C8: two callers on two threads, with their own buffers: whenever a call
\* has returned, its buffer holds the text (or truncation) of its own error
\* number, whatever the other caller did meanwhile.
C8_OwnText ==
    \A t \in threads : \A u \in threads \ {t} :
        Returned(t) /\ buflen[t] >= 1 =>
            CStr(mem[t], buflen[t]) = Prefix(Msg(errnum[t]), buflen[t] - 1)

\* C9: whenever strerror_r returns, the pointer returned is buf itself, in
\* both variants and for every errnum and buflen; when strerror_s failed, the
\* buffer is as the caller passed it (buf then designates a string only if
\* it did before).
C9_ReturnsBuf ==
    \A t \in Threads :
        Returned(t) =>
            /\ ret[t] = BufPtr(t)
            /\ status[t] = "EINVAL" => mem[t] = mem0[t] /\ written[t] = {}

\* strerror_s failed and strerror_r returned buf all the same, with no NUL
\* anywhere in the caller's bytes.
C9_Witness ==
    /\ Returned(1) /\ Msvc /\ status[1] = "EINVAL"
    /\ ret[1] = BufPtr(1)
    /\ \A o \in Offsets : mem[1][o] # NUL

----------------------------------------------------------------------------
(* Properties of the preprocessor pass *)

Mk(n, m) == [fn |-> "mkdir", args |-> <<n, m>>]

Shimmed == {"getpid", "mkdir", "access", "__attribute__"}

\* __attribute__(x) is defined to nothing.
AttrNeutral ==
    /\ Defined("__attribute__")
    /\ macros["__attribute__"].fn
    /\ macros["__attribute__"].body = << >>

Has(lib) == \E i \in 1..Len(libs) : libs[i] = lib

\* C5: with _WIN32 defined, once windows_portability.h is read, getpid
\* expands to _getpid, access to _access and mkdir(name, mode) to
\* _mkdir(name); without _WIN32 the header defines none of getpid, mkdir,
\* access, __attribute__ and does not compile strerror_r, whatever the other
\* predefined macros are.
C5_Remap ==
    IF "_WIN32" \in predef
    THEN "wp" \in seen =>
           /\ ExpandCall(macros, [fn |-> "getpid", args |-> << >>])
                 = <<"_getpid", "(", ")">>
           /\ \A n \in Names :
                /\ ExpandCall(macros, [fn |-> "access", args |-> <<n, "0">>])
                      = <<"_access", "(", n, ",", "0", ")">>
                /\ \A m \in Modes :
                      ExpandCall(macros, Mk(n, m)) = <<"_mkdir", "(", n, ")">>
    ELSE /\ \A k \in Shimmed : ~Defined(k)
         /\ <<"wp", 21>> \notin emitted
         /\ out.call.fn # "" => out.exp = CallTokens(out.call.fn, out.call.args)

\* On Windows a use of getpid after the header was expanded to _getpid().
C5_Witness ==
    /\ "_WIN32" \in predef /\ "wp" \in out.after
    /\ out.call.fn = "getpid"
    /\ out.exp = <<"_getpid", "(", ")">>

\* C6: over all combinations of _WIN32, __GNUC__, _MSC_VER and _OPENMP, once
\* common_windows.h is read, brotlienc.lib and brotlidec.lib are both emitted
\* exactly when _WIN32 and _MSC_VER are defined (MSVC on Windows), and
\* libiomp5md.lib exactly when _OPENMP is defined as well.
C6_MsvcOnly ==
    "cw" \in seen =>
        LET msvcWin == {"_WIN32", "_MSC_VER"} \subseteq predef
        IN /\ Has("brotlienc.lib") <=> msvcWin
           /\ Has("brotlidec.lib") <=> msvcWin
           /\ Has("libiomp5md.lib") <=> (msvcWin /\ "_OPENMP" \in predef)

\* C7 as stated: over all combinations of _WIN32 and __GNUC__, once the header
\* is read, __attribute__(x) is defined to nothing exactly when __GNUC__ is
\* not defined.
C7_EveryNonGcc ==
    "wp" \in seen => (AttrNeutral <=> "__GNUC__" \notin predef)

\* C7 as amended: once the header is read, __attribute__(x) is defined to
\* nothing exactly when _WIN32 is defined and __GNUC__ is not; with __GNUC__
\* defined, or without _WIN32, the header never defines __attribute__.
C7_NonGccOnWindows ==
    /\ "wp" \in seen =>
          (AttrNeutral <=> ("_WIN32" \in predef /\ "__GNUC__" \notin predef))
    /\ ("__GNUC__" \in predef \/ "_WIN32" \notin predef)
          => ~Defined("__attribute__")

\* A non-GCC Windows compiler saw __attribute__((constructor)) vanish.
C7_Witness ==
    /\ "_WIN32" \in predef /\ "__GNUC__" \notin predef
    /\ "wp" \in out.after
    /\ out.call.fn = "__attribute__"
    /\ out.exp = << >>

Count(s, tok) == Cardinality({i \in 1..Len(s) : s[i] = tok})

\* C10: on Windows, after the header, a use mkdir(name, mode) is exactly one
\* call _mkdir(name); the mode argument does not appear in it, and any other
\* mode argument gives the same call.
C10_ModeDiscarded ==
    (/\ "_WIN32" \in predef /\ "wp" \in out.after /\ out.call.fn = "mkdir")
    => /\ out.exp = <<"_mkdir", "(", out.call.args[1], ")">>
       /\ Count(out.exp, "_mkdir") = 1
       /\ Count(out.exp, out.call.args[2]) = 0
       /\ \A m \in Modes : ExpandCall(macros, Mk(out.call.args[1], m)) = out.exp

\* mkdir(mode, m), whose first argument is spelled like the macro's second
\* parameter, became _mkdir(mode).
C10_Witness ==
    /\ "_WIN32" \in predef /\ "wp" \in out.after
    /\ out.call = Mk("mode", "m")
    /\ out.exp = <<"_mkdir", "(", "mode", ")">>

====
